---- MODULE Spec2Model ----
(***************************************************************************)
(* Dependency graph engine of ovu-sam (backend/app/services/               *)
(* graph_service.py) and its HTTP routes (backend/app/api/v1/routes/       *)
(* graph.py), over the application / dependency store.                     *)
(*                                                                         *)
(* The store is the tables of applications (apps, app_meta), dependencies   *)
(* (deps) and routes.  A request is served in steps: one step per database *)
(* read, the in-memory computation that follows a read belonging to the    *)
(* same step.  Writers commit between the steps.                           *)
(***************************************************************************)
EXTENDS Integers, Sequences, FiniteSets, TLC

\* ---------------------------------------------------------------- bounds
MaxId == 3
MaxDeps == 3
MaxDepth == 2
MaxTwiceDeps == 2
MaxWriterDeps == 1
MaxTasks == 2
MaxTicks == 2

\* ------------------------------------------------------------- the store
\* Dependency.provider_id is nullable; application ids are autoincrement
\* integers >= 1, so the truthiness test `if dep.provider_id:` is false
\* exactly for the null provider.
None == 0

Ids == 1..MaxId

\* Application.code: a unique short string per application.
AppCode(i) == <<"code", i>>

\* A dependency record, reduced to the fields the graph algorithms read.
DepKinds == [consumer_id : Ids, provider_id : Ids \cup {None}]

\* Result of `select(Dependency)`: the records in store order.
DepSeqs == UNION {[1..n -> DepKinds] : n \in 0..MaxDeps}

VARIABLES
    apps,     \* applications table: id -> code, for the existing ids
    deps,     \* dependencies table, in store order
    pc,       \* position of the request being served
    args,     \* the request's parameters
    calls,    \* services invoked and reads issued by the request
    q_path,   \* find_path: the id path found by the BFS
    q_deps,   \* the dependency records the request read
    result,   \* what the request returned or raised
    app_meta, \* applications table: id -> type, status, category
    routes,   \* routes table: application id -> number of its Route rows
    q_apps,   \* get_full_graph: the application rows the request read
    q_routes, \* get_full_graph: the route counts read so far, in q_apps order
    last,     \* the previous request of the session: its service calls,
              \* parameters and result (empty before the first one ends)
    settings, \* clients/ulm.py: whether the service credentials are set
    service_token_cache,  \* _service_token_cache: token and exp
    service_token_lock,   \* _service_token_lock: locked, waiters in order
    task,     \* the tasks calling get_service_token: position, now, result
    clock,    \* what time.time() returns
    logins    \* number of login requests sent to the identity service

ulm_vars == <<settings, service_token_cache, service_token_lock, task, clock,
              logins>>

graph_vars == <<apps, deps, pc, args, calls, q_path, q_deps, result,
                app_meta, routes, q_apps, q_routes, last>>

vars == <<apps, deps, pc, args, calls, q_path, q_deps, result,
          app_meta, routes, q_apps, q_routes, last,
          settings, service_token_cache, service_token_lock, task, clock,
          logins>>

NoArgs == [from_app |-> None, to_app |-> None]

\* The enumerations of db/models.py: member name -> value.
AppTypeValue ==
    ("CORE" :> "core") @@ ("FEATURE" :> "feature") @@ ("TOOL" :> "tool")
    @@ ("INTEGRATION" :> "integration") @@ ("MICROSERVICE" :> "microservice")

AppStatusValue ==
    ("ACTIVE" :> "active") @@ ("DEVELOPMENT" :> "development")
    @@ ("DEPRECATED" :> "deprecated") @@ ("ARCHIVED" :> "archived")

DependencyTypeValue ==
    ("API" :> "api") @@ ("DATABASE" :> "database") @@ ("CACHE" :> "cache")
    @@ ("SERVICE" :> "service") @@ ("LIBRARY" :> "library")
    @@ ("EXTERNAL" :> "external")

DependencyCriticalityValue ==
    ("CRITICAL" :> "critical") @@ ("HIGH" :> "high") @@ ("MEDIUM" :> "medium")
    @@ ("LOW" :> "low") @@ ("OPTIONAL" :> "optional")

\* The k-th element of s, counting round and round.
Cyclic(s, k) == s[((k - 1) % Len(s)) + 1]

\* Application.display_name.
AppDisplayName(i) == <<"display_name", i>>

\* Application.category is nullable: <<>> is the null category, <<c>> the
\* category c (the empty string included).
Categories == {<<>>, <<"">>, <<"Authentication">>, <<"Administration">>}

\* type, status and category of an application row.
AppMetaKinds ==
    [type : {"CORE", "FEATURE"}, status : {"ACTIVE", "DEVELOPMENT"},
     category : Categories]

\* The attributes of the applications in the stores that vary the
\* dependency records instead.
DefaultMeta(i) ==
    [type |-> Cyclic(<<"CORE", "FEATURE">>, i),
     status |-> Cyclic(<<"ACTIVE", "ACTIVE", "DEVELOPMENT">>, i),
     category |-> Cyclic(<<<<"Authentication">>, <<>>, <<"">>>>, i)]

\* A full dependency row: the i-th record of a store gets the id i, a name
\* of its own, and a type and a criticality that vary with i.
DepRow(d, i) ==
    [id |-> i, consumer_id |-> d.consumer_id, provider_id |-> d.provider_id,
     name |-> <<"dep", i>>,
     type |-> Cyclic(<<"SERVICE", "DATABASE">>, i),
     criticality |-> Cyclic(<<"CRITICAL", "HIGH", "MEDIUM">>, i)]

WithAttrs(ds) == [i \in 1..Len(ds) |-> DepRow(ds[i], i)]

\* Stores of full dependency rows.
DepRowSeqs == {WithAttrs(ds) : ds \in DepSeqs}

\* Every result has the same shape; `kind` tells which fields are meaningful.
Res(kind) ==
    [kind |-> kind, cycles |-> <<>>, from_app |-> <<>>, to_app |-> <<>>,
     path |-> <<>>, length |-> 0]

InSeq(x, s) == \E i \in 1..Len(s) : s[i] = x

\* ------------------------------------------------- adjacency construction
\* graph = defaultdict(list); for dep in deps: if dep.provider_id:
\*     graph[dep.consumer_id].append(dep.provider_id)
\* GraphKeys is the key order of the dict (insertion order), Neighbors the
\* list stored under one key (the empty list for an absent key).
RECURSIVE GraphKeys(_)
GraphKeys(ds) ==
    IF ds = <<>> THEN <<>>
    ELSE LET front == GraphKeys(SubSeq(ds, 1, Len(ds) - 1))
             d == ds[Len(ds)]
         IN  IF d.provider_id # None /\ ~InSeq(d.consumer_id, front)
             THEN Append(front, d.consumer_id)
             ELSE front

\* Variant of Neighbors that follows the records from provider to consumer.
Neighbors_Reversed(ds, n) ==
    LET sel == SelectSeq(ds, LAMBDA d : d.provider_id = n)
    IN  [i \in 1..Len(sel) |-> sel[i].consumer_id]

\* Variant of Neighbors that lists the providers from the last record to the
\* first.
Neighbors_LastFirst(ds, n) ==
    LET sel == SelectSeq(ds, LAMBDA d : d.consumer_id = n /\ d.provider_id # None)
    IN  [i \in 1..Len(sel) |-> sel[Len(sel) + 1 - i].provider_id]

Neighbors(ds, n) ==
    LET sel == SelectSeq(ds, LAMBDA d : d.consumer_id = n /\ d.provider_id # None)
    IN  [i \in 1..Len(sel) |-> sel[i].provider_id]

\* --------------------------------------------------------- cycle detector
\* The mutable state the nested dfs() shares with its caller: the sets
\* visited and rec_stack, the lists path and cycles, and the key list of the
\* defaultdict `graph`, which grows when graph[node] is read for a node that
\* is not yet a key.
DfsInit(ds) ==
    [visited |-> {}, rec_stack |-> {}, path |-> <<>>, cycles |-> <<>>,
     keys |-> GraphKeys(ds)]

\* path.index(x): position of the first occurrence.
Index(s, x) == CHOOSE i \in 1..Len(s) : s[i] = x /\ \A j \in 1..(i - 1) : s[j] # x

\* Entry of dfs(node): visited.add, rec_stack.add, path.append, and the read
\* of graph[node] that starts the for loop.
DfsEnter(node, st) ==
    [st EXCEPT !.visited = @ \cup {node},
               !.rec_stack = @ \cup {node},
               !.path = Append(@, node),
               !.keys = IF InSeq(node, @) THEN @ ELSE Append(@, node)]

\* Variant of DfsRecordCycle that records the closing edge only.
DfsRecordCycle_BackEdgeOnly(neighbor, st) ==
    [st EXCEPT !.cycles = Append(@, <<st.path[Len(st.path)], neighbor>>)]

\* The back edge found: cycle = path[cycle_start:] + [neighbor].
DfsRecordCycle(neighbor, st) ==
    LET cycle_start == Index(st.path, neighbor)
        cycle == Append(SubSeq(st.path, cycle_start, Len(st.path)), neighbor)
    IN  [st EXCEPT !.cycles = Append(@, cycle)]

\* Normal exit of dfs(node): path.pop(); rec_stack.remove(node).
DfsLeave(node, st) ==
    [st EXCEPT !.path = SubSeq(@, 1, Len(@) - 1),
               !.rec_stack = @ \ {node}]

\* dfs(node) and its for loop from the i-th neighbour on.  Both yield the
\* state afterwards and the value dfs returns.  The early `return True`
\* leaves path and rec_stack as they are.
RECURSIVE Dfs(_, _, _), DfsLoop(_, _, _, _)
\* Variant of Dfs that tells its caller to go on after a cycle was recorded.
Dfs_GoesOn(ds, node, st) ==
    [DfsLoop(ds, node, 1, DfsEnter(node, st)) EXCEPT !.ret = FALSE]

Dfs(ds, node, st) == DfsLoop(ds, node, 1, DfsEnter(node, st))

DfsLoop(ds, node, i, st) ==
    LET nbrs == Neighbors(ds, node)
    IN  IF i > Len(nbrs)
        THEN [st |-> DfsLeave(node, st), ret |-> FALSE]
        ELSE LET neighbor == nbrs[i]
             IN  IF neighbor \notin st.visited
                 THEN LET r == Dfs(ds, neighbor, st)
                      IN  IF r.ret THEN [st |-> r.st, ret |-> TRUE]
                          ELSE DfsLoop(ds, node, i + 1, r.st)
                 ELSE IF neighbor \in st.rec_stack
                 THEN [st |-> DfsRecordCycle(neighbor, st), ret |-> TRUE]
                 ELSE DfsLoop(ds, node, i + 1, st)

\* for node in graph.keys(): if node not in visited: dfs(node)
\* The iterator over the keys refuses to go on once the dict has changed
\* size since the loop began (RuntimeError: dictionary changed size during
\* iteration); it checks that before it looks for a next key.
RECURSIVE CheckAllNodes(_, _, _, _)
CheckAllNodes(ds, size, i, st) ==
    IF Len(st.keys) # size THEN Res("RuntimeError")
    ELSE IF i > size THEN [Res("cycles") EXCEPT !.cycles = st.cycles]
    ELSE LET node == st.keys[i]
         IN  IF node \notin st.visited
             THEN CheckAllNodes(ds, size, i + 1, Dfs(ds, node, st).st)
             ELSE CheckAllNodes(ds, size, i + 1, st)

\* GraphService.get_circular_dependencies, after its read of the store.
get_circular_dependencies(ds) ==
    CheckAllNodes(ds, Len(GraphKeys(ds)), 1, DfsInit(ds))

\* GET /graph/circular: one read of the dependencies, then the detector.
detect_circular_dependencies ==
    /\ pc = "idle"
    /\ pc' = "done"
    /\ args' = NoArgs
    /\ calls' = {"get_circular_dependencies", "select_dependencies"}
    /\ q_deps' = deps
    /\ result' = get_circular_dependencies(deps)
    /\ UNCHANGED <<apps, deps, q_path>>
    /\ UNCHANGED ulm_vars
    /\ UNCHANGED <<app_meta, routes, q_apps, q_routes, last>>

\* ------------------------------------------------------------ path finder
\* queue.append((neighbor, path + [neighbor])) for every neighbour not yet
\* visited, in list order, marking it visited.
RECURSIVE EnqueueNeighbors(_, _, _, _, _)
EnqueueNeighbors(nbrs, i, path, queue, visited) ==
    IF i > Len(nbrs) THEN [queue |-> queue, visited |-> visited]
    ELSE LET neighbor == nbrs[i]
         IN  IF neighbor \notin visited
             THEN EnqueueNeighbors(nbrs, i + 1, path,
                      Append(queue, [node |-> neighbor, path |-> Append(path, neighbor)]),
                      visited \cup {neighbor})
             ELSE EnqueueNeighbors(nbrs, i + 1, path, queue, visited)

\* while queue: current, path = queue.popleft(); stop at the first dequeue
\* of to_app_id; an exhausted queue is the `return None`.
RECURSIVE BfsLoop(_, _, _, _)
BfsLoop(ds, to_app_id, queue, visited) ==
    IF queue = <<>> THEN [found |-> FALSE, path |-> <<>>]
    ELSE LET current == Head(queue).node
             path == Head(queue).path
         IN  IF current = to_app_id THEN [found |-> TRUE, path |-> path]
             ELSE LET r == EnqueueNeighbors(Neighbors(ds, current), 1, path,
                                            Tail(queue), visited)
                  IN  BfsLoop(ds, to_app_id, r.queue, r.visited)

\* queue = deque([(from_app_id, [from_app_id])]); visited = {from_app_id}
Bfs(ds, from_app_id, to_app_id) ==
    BfsLoop(ds, to_app_id,
            <<[node |-> from_app_id, path |-> <<from_app_id>>]>>, {from_app_id})

\* Variant of PathLength that counts nodes instead of hops.
PathLength_NodeCount(path) == Len(path)

\* length=len(path) - 1
PathLength(path) == Len(path) - 1

\* The DependencyPath built from the id path and the applications read by
\* `select(Application).where(Application.id.in_(path))`: the codes of the
\* path ids that were found, and apps[from_app_id] / apps[to_app_id], which
\* raise KeyError for an id that was not found.
BuildDependencyPath(found_apps, path, from_app_id, to_app_id) ==
    LET present == SelectSeq(path, LAMBDA app_id : app_id \in DOMAIN found_apps)
        path_codes == [i \in 1..Len(present) |-> found_apps[present[i]]]
    IN  IF from_app_id \notin DOMAIN found_apps \/ to_app_id \notin DOMAIN found_apps
        THEN Res("KeyError")
        ELSE [Res("DependencyPath") EXCEPT
                 !.from_app = found_apps[from_app_id],
                 !.to_app = found_apps[to_app_id],
                 !.path = path_codes,
                 !.length = PathLength(path)]

\* Variant of SameApp that lets every request through.
SameApp_Never(from_app, to_app) == FALSE

\* The route's guard: if from_app == to_app: raise HTTPException(400).
SameApp(from_app, to_app) == from_app = to_app

\* GET /graph/path up to the first suspension inside find_path: the guard,
\* then find_path's read of the dependencies and the whole BFS.  A found
\* path leaves the request waiting for the read of the applications; an
\* exhausted queue returns None.
find_dependency_path(from_app, to_app) ==
    /\ pc = "idle"
    /\ args' = [from_app |-> from_app, to_app |-> to_app]
    /\ IF SameApp(from_app, to_app)
       THEN /\ pc' = "done"
            /\ result' = Res("HTTP_400")
            /\ calls' = {}
            /\ UNCHANGED <<q_deps, q_path>>
       ELSE LET r == Bfs(deps, from_app, to_app)
            IN  /\ calls' = {"find_path", "select_dependencies"}
                /\ q_deps' = deps
                /\ IF r.found
                   THEN /\ pc' = "find_path_apps"
                        /\ q_path' = r.path
                        /\ UNCHANGED result
                   ELSE /\ pc' = "done"
                        /\ result' = Res("None")
                        /\ UNCHANGED q_path
    /\ UNCHANGED <<apps, deps>>
    /\ UNCHANGED ulm_vars
    /\ UNCHANGED <<app_meta, routes, q_apps, q_routes, last>>

\* find_path after the BFS found to_app_id: the read of the applications on
\* the path and the construction of the result.
find_path_apps ==
    /\ pc = "find_path_apps"
    /\ pc' = "done"
    /\ calls' = calls \cup {"select_applications"}
    /\ LET found_apps == [i \in DOMAIN apps \cap {q_path[k] : k \in 1..Len(q_path)}
                              |-> apps[i]]
       IN  result' = BuildDependencyPath(found_apps, q_path,
                                         args.from_app, args.to_app)
    /\ UNCHANGED <<apps, deps, args, q_path, q_deps>>
    /\ UNCHANGED ulm_vars
    /\ UNCHANGED <<app_meta, routes, q_apps, q_routes, last>>

\* ----------------------------------------------------------- graph builder
\* The elements of a finite set of integers in ascending order.
Ascending(S) ==
    [k \in 1..Cardinality(S) |->
        CHOOSE i \in S : Cardinality({j \in S : j < i}) = k - 1]

\* One row of `select(Application)`.
AppRow(i) ==
    [id |-> i, code |-> apps[i], display_name |-> AppDisplayName(i),
     type |-> app_meta[i].type, status |-> app_meta[i].status,
     category |-> app_meta[i].category]

\* Result of `select(Application)`: the rows in id order.
SelectApplications ==
    LET ids == Ascending(DOMAIN apps)
    IN  [k \in 1..Len(ids) |-> AppRow(ids[k])]

\* select(func.count(Route.id)).where(Route.application_id == app.id)
CountRoutesFor(app_id) == IF app_id \in DOMAIN routes THEN routes[app_id] ELSE 0

\* The value a defaultdict(lambda: {"required": 0, "provided": 0}) yields
\* for a key, present or not.
CountsAt(counts, k) ==
    IF k \in DOMAIN counts THEN counts[k] ELSE [required |-> 0, provided |-> 0]

\* deps_count[k][field] += 1
Bump(counts, k, field) ==
    [x \in DOMAIN counts \cup {k} |->
        IF x = k THEN [CountsAt(counts, k) EXCEPT ![field] = @ + 1] ELSE counts[x]]

\* Variant of DepsCount that counts a record for its consumer only when the
\* record has a provider.
RECURSIVE DepsCount_InternalOnly(_)
DepsCount_InternalOnly(ds) ==
    IF ds = <<>> THEN <<>>
    ELSE LET counts == DepsCount_InternalOnly(SubSeq(ds, 1, Len(ds) - 1))
             dep == ds[Len(ds)]
         IN  IF dep.provider_id # None
             THEN Bump(Bump(counts, dep.consumer_id, "required"),
                       dep.provider_id, "provided")
             ELSE counts

\* for dep in deps: deps_count[dep.consumer_id]["required"] += 1
\*                  if dep.provider_id: deps_count[dep.provider_id]["provided"] += 1
RECURSIVE DepsCount(_)
DepsCount(ds) ==
    IF ds = <<>> THEN <<>>
    ELSE LET counts == DepsCount(SubSeq(ds, 1, Len(ds) - 1))
             dep == ds[Len(ds)]
             required == Bump(counts, dep.consumer_id, "required")
         IN  IF dep.provider_id # None
             THEN Bump(required, dep.provider_id, "provided")
             ELSE required

\* nodes: one GraphNode per application row, in row order.
BuildNodes(app_rows, ds, routes_count) ==
    LET deps_count == DepsCount(ds)
    IN  [k \in 1..Len(app_rows) |->
            LET app == app_rows[k]
            IN  [id |-> app.id, code |-> app.code,
                 display_name |-> app.display_name,
                 type |-> AppTypeValue[app.type],
                 status |-> AppStatusValue[app.status],
                 category |-> app.category,
                 dependencies_count |-> CountsAt(deps_count, app.id).required,
                 dependents_count |-> CountsAt(deps_count, app.id).provided,
                 routes_count |-> routes_count[k]]]

\* One GraphEdge of a dependency record.
GraphEdge(dep) ==
    [id |-> dep.id, source |-> dep.consumer_id, target |-> dep.provider_id,
     name |-> dep.name, type |-> DependencyTypeValue[dep.type],
     criticality |-> DependencyCriticalityValue[dep.criticality]]

\* Variant of BuildEdges that emits an edge for every record.
BuildEdges_Unfiltered(ds) == [k \in 1..Len(ds) |-> GraphEdge(ds[k])]

\* edges: for dep in deps: if dep.provider_id: edges.append(GraphEdge(...))
BuildEdges(ds) ==
    LET internal == SelectSeq(ds, LAMBDA dep : dep.provider_id # None)
    IN  [k \in 1..Len(internal) |-> GraphEdge(internal[k])]

\* Variant of Tally that stores 1 instead of adding 1.
RECURSIVE Tally_NoAccumulate(_)
Tally_NoAccumulate(keys) ==
    IF keys = <<>> THEN <<>>
    ELSE LET d == Tally_NoAccumulate(SubSeq(keys, 1, Len(keys) - 1))
             key == keys[Len(keys)]
         IN  [x \in DOMAIN d \cup {key} |-> IF x = key THEN 1 ELSE d[x]]

\* for key in keys: d[key] = d.get(key, 0) + 1
RECURSIVE Tally(_)
Tally(keys) ==
    IF keys = <<>> THEN <<>>
    ELSE LET d == Tally(SubSeq(keys, 1, Len(keys) - 1))
             key == keys[Len(keys)]
         IN  [x \in DOMAIN d \cup {key} |->
                 IF x = key THEN (IF key \in DOMAIN d THEN d[key] ELSE 0) + 1
                 ELSE d[x]]

\* `if app.category:` is false for the null and for the empty category.
HasCategory(app) == app.category # <<>> /\ app.category[1] # ""

\* stats: the totals and the three partitions of the application rows.
BuildStats(app_rows, nodes, edges) ==
    LET categorised == SelectSeq(app_rows, HasCategory)
    IN  [total_nodes |-> Len(nodes),
         total_edges |-> Len(edges),
         by_type |-> Tally([k \in 1..Len(app_rows) |-> AppTypeValue[app_rows[k].type]]),
         by_status |-> Tally([k \in 1..Len(app_rows) |-> AppStatusValue[app_rows[k].status]]),
         by_category |-> Tally([k \in 1..Len(categorised) |-> categorised[k].category[1]])]

\* The DependencyGraph get_full_graph returns.
BuildDependencyGraph(app_rows, ds, routes_count) ==
    LET nodes == BuildNodes(app_rows, ds, routes_count)
        edges == BuildEdges(ds)
    IN  [kind |-> "DependencyGraph", nodes |-> nodes, edges |-> edges,
         total_apps |-> Len(app_rows), total_dependencies |-> Len(ds),
         stats |-> BuildStats(app_rows, nodes, edges)]

\* GET /graph up to the first suspension of get_full_graph: the read of the
\* applications.
get_dependency_graph ==
    /\ pc = "idle"
    /\ pc' = "full_graph_deps"
    /\ args' = NoArgs
    /\ calls' = {"get_full_graph", "select_applications"}
    /\ q_apps' = SelectApplications
    /\ UNCHANGED ulm_vars
    /\ UNCHANGED <<apps, deps, app_meta, routes, q_path, q_deps, q_routes,
                   result, last>>

\* get_full_graph: the read of the dependencies; routes_count = {}.  With no
\* application row there is no route count to read and the graph is built.
get_full_graph_deps ==
    /\ pc = "full_graph_deps"
    /\ calls' = calls \cup {"select_dependencies"}
    /\ q_deps' = deps
    /\ q_routes' = <<>>
    /\ IF q_apps = <<>>
       THEN /\ pc' = "done"
            /\ result' = BuildDependencyGraph(q_apps, deps, <<>>)
       ELSE /\ pc' = "full_graph_routes"
            /\ UNCHANGED result
    /\ UNCHANGED ulm_vars
    /\ UNCHANGED <<apps, deps, app_meta, routes, args, q_path, q_apps, last>>

\* get_full_graph: the route count of the next application row; after the
\* last one the graph is built from the rows read.
get_full_graph_routes ==
    /\ pc = "full_graph_routes"
    /\ calls' = calls \cup {"count_routes"}
    /\ LET routes_count == Append(q_routes, CountRoutesFor(q_apps[Len(q_routes) + 1].id))
       IN  /\ q_routes' = routes_count
           /\ IF Len(routes_count) = Len(q_apps)
              THEN /\ pc' = "done"
                   /\ result' = BuildDependencyGraph(q_apps, q_deps, routes_count)
              ELSE /\ pc' = "full_graph_routes"
                   /\ UNCHANGED result
    /\ UNCHANGED ulm_vars
    /\ UNCHANGED <<apps, deps, app_meta, routes, args, q_path, q_deps, q_apps, last>>

\* ------------------------------------------------------------ tree builder
\* Variant of Skip without the visited test.
Skip_NoVisited(current_id, depth, max_depth, visited) == depth > max_depth

\* Variant of Skip that lets one more level through.
Skip_OneDeeper(current_id, depth, max_depth, visited) ==
    depth > max_depth + 1 \/ current_id \in visited

\* build_tree: if depth > max_depth or current_id in visited: return None
Skip(current_id, depth, max_depth, visited) ==
    depth > max_depth \/ current_id \in visited

\* Variant of DependencyInfo with type and criticality exchanged.
DependencyInfo_Swapped(dep) ==
    [name |-> dep.name,
     type |-> DependencyCriticalityValue[dep.criticality],
     criticality |-> DependencyTypeValue[dep.type]]

\* child.dependency_info = {"name": ..., "type": ..., "criticality": ...}
DependencyInfo(dep) ==
    [name |-> dep.name,
     type |-> DependencyTypeValue[dep.type],
     criticality |-> DependencyCriticalityValue[dep.criticality]]

\* Variant of VisitedAfterChild in which every branch works on its own copy
\* of the visited set.
VisitedAfterChild_Copy(before, after) == before

\* `visited` is one set shared by the whole traversal: what a child's
\* subtree added is there when the next child is tried.
VisitedAfterChild(before, after) == after

\* select(Dependency).where(Dependency.consumer_id == current_id)
DependenciesOf(ds, current_id) ==
    SelectSeq(ds, LAMBDA dep : dep.consumer_id = current_id)

\* build_tree(current_id, depth) and its loop over the dependencies from
\* the i-th on.  A tree is <<node>>, the None result is <<>>; likewise
\* dependency_info.  Both operators yield the visited set afterwards.
RECURSIVE BuildTree(_, _, _, _, _), BuildChildren(_, _, _, _, _, _, _)
BuildTree(ds, current_id, depth, max_depth, visited) ==
    IF Skip(current_id, depth, max_depth, visited)
    THEN [tree |-> <<>>, visited |-> visited]
    ELSE LET seen == visited \cup {current_id}
         IN  IF current_id \notin DOMAIN apps
             THEN [tree |-> <<>>, visited |-> seen]
             ELSE LET r == BuildChildren(ds, DependenciesOf(ds, current_id), 1,
                                         depth, max_depth, seen, <<>>)
                  IN  [tree |-> <<[app_id |-> current_id,
                                   app_code |-> apps[current_id],
                                   app_name |-> AppDisplayName(current_id),
                                   children |-> r.children,
                                   dependency_info |-> <<>>]>>,
                       visited |-> r.visited]

BuildChildren(ds, dep_list, i, depth, max_depth, visited, children) ==
    IF i > Len(dep_list) THEN [children |-> children, visited |-> visited]
    ELSE LET dep == dep_list[i]
         IN  IF dep.provider_id # None
             THEN LET r == BuildTree(ds, dep.provider_id, depth + 1, max_depth, visited)
                      next == VisitedAfterChild(visited, r.visited)
                  IN  IF r.tree # <<>>
                      THEN BuildChildren(ds, dep_list, i + 1, depth, max_depth, next,
                               Append(children,
                                   [r.tree[1] EXCEPT
                                       !.dependency_info = <<DependencyInfo(dep)>>]))
                      ELSE BuildChildren(ds, dep_list, i + 1, depth, max_depth,
                                         next, children)
             ELSE BuildChildren(ds, dep_list, i + 1, depth, max_depth,
                                visited, children)

\* Variant of RootExists that finds every root.
RootExists_Always(app_id) == TRUE

\* get_app_dependencies_tree: the read of the root application; `if not app`.
RootExists(app_id) == app_id \in DOMAIN apps

\* get_app_dependencies_tree up to the end of the read of the root
\* application; a missing root is the None result.  The route
\* GET /graph/tree/{app_id} calls it with a max_depth of 1..10 and raises
\* HTTP 404 on None.
get_app_dependencies_tree(app_id, max_depth) ==
    /\ pc = "idle"
    /\ args' = [app_id |-> app_id, max_depth |-> max_depth]
    /\ calls' = {"get_app_dependencies_tree", "select_applications"}
    /\ IF RootExists(app_id)
       THEN /\ pc' = "build_tree"
            /\ UNCHANGED result
       ELSE /\ pc' = "done"
            /\ result' = [kind |-> "None"]
    /\ UNCHANGED ulm_vars
    /\ UNCHANGED <<apps, deps, app_meta, routes, q_path, q_deps, q_apps,
                   q_routes, last>>

\* Variant of NewVisited that keeps the root of the tree built before.
NewVisited_Leftover ==
    IF result.kind = "DependencyTree" THEN {result.tree.app_id} ELSE {}

\* visited = set()
NewVisited == {}

\* visited = set(); return await build_tree(app_id, 0).  The reads of the
\* traversal are taken in one step, from the store as it is then.
build_tree ==
    /\ pc = "build_tree"
    /\ pc' = "done"
    /\ calls' = calls \cup {"build_tree", "select_dependencies"}
    /\ q_deps' = deps
    /\ LET r == BuildTree(deps, args.app_id, 0, args.max_depth, NewVisited)
       IN  result' = IF r.tree = <<>> THEN [kind |-> "None"]
                     ELSE [kind |-> "DependencyTree", tree |-> r.tree[1]]
    /\ UNCHANGED ulm_vars
    /\ UNCHANGED <<apps, deps, app_meta, routes, args, q_path, q_apps,
                   q_routes, last>>

\* ---------------------------------------------------- critical dependencies
\* Variant of DbValueForElem that sends every string as it is.
DbValueForElem_AsIs(elem) == elem

\* What the Enum column type sends to the database for a value compared
\* with the column: the member name for a member or for the value of a
\* member (the members are strings equal to their values), any other string
\* as it is.
DbValueForElem(elem) ==
    IF \E n \in DOMAIN DependencyCriticalityValue :
           DependencyCriticalityValue[n] = elem
    THEN CHOOSE n \in DOMAIN DependencyCriticalityValue :
             DependencyCriticalityValue[n] = elem
    ELSE elem

\* select(Dependency).where(Dependency.criticality == "critical")
SelectCritical(ds) ==
    SelectSeq(ds, LAMBDA dep : dep.criticality = DbValueForElem("critical"))

\* The dict the route makes of a row (the description is not modelled).
CriticalItem(dep) ==
    [id |-> dep.id, name |-> dep.name,
     type |-> DependencyTypeValue[dep.type],
     criticality |-> DependencyCriticalityValue[dep.criticality],
     consumer_id |-> dep.consumer_id, provider_id |-> dep.provider_id]

\* GET /graph/critical: one read, then one dict per row in row order.
get_critical_dependencies ==
    /\ pc = "idle"
    /\ pc' = "done"
    /\ args' = NoArgs
    /\ calls' = {"get_critical_dependencies", "select_dependencies"}
    /\ q_deps' = SelectCritical(deps)
    /\ result' = [kind |-> "CriticalDependencies",
                  items |-> [i \in 1..Len(q_deps') |-> CriticalItem(q_deps'[i])]]
    /\ UNCHANGED ulm_vars
    /\ UNCHANGED <<apps, deps, app_meta, routes, q_path, q_apps, q_routes, last>>

\* ------------------------------------------------------------- completion
\* The services a request can have called.
ServiceNames ==
    {"get_full_graph", "get_app_dependencies_tree", "find_path",
     "get_critical_dependencies", "get_circular_dependencies"}

\* Variant of SessionClose that writes the rows the session holds back as
\* the dependencies table.
SessionClose_Commit ==
    /\ deps' = q_deps
    /\ UNCHANGED <<apps, app_meta, routes>>

\* get_db: the session of the request is closed without a commit, and no
\* query issues a statement other than SELECT.
SessionClose == UNCHANGED <<apps, deps, app_meta, routes>>

\* The response is sent and the worker takes the next request.  `last`
\* keeps what the finished request was, what it returned and the store it
\* left; nothing else of it is handed on.
respond ==
    /\ pc = "done"
    /\ pc' = "idle"
    /\ last' = <<[service |-> calls \cap ServiceNames, args |-> args,
                  result |-> result, apps |-> apps, deps |-> deps,
                  app_meta |-> app_meta, routes |-> routes]>>
    /\ SessionClose
    /\ UNCHANGED ulm_vars
    /\ UNCHANGED <<args, calls, q_path, q_deps, q_apps, q_routes, result>>

\* ---------------------------------------------------------------- writers
\* ApplicationService.delete, committed: the application row goes, and with
\* it (ON DELETE CASCADE on both foreign keys) every dependency record that
\* names it as consumer or provider, and every route of it.  It may commit
\* between two reads of a request being served.
DeleteApplication(app_id) ==
    /\ app_id \in DOMAIN apps
    /\ apps' = [i \in DOMAIN apps \ {app_id} |-> apps[i]]
    /\ deps' = SelectSeq(deps, LAMBDA d : d.consumer_id # app_id /\ d.provider_id # app_id)
    /\ app_meta' = [i \in DOMAIN app_meta \ {app_id} |-> app_meta[i]]
    /\ routes' = [i \in DOMAIN routes \ {app_id} |-> routes[i]]
    /\ UNCHANGED <<pc, args, calls, q_path, q_deps, result>>
    /\ UNCHANGED ulm_vars
    /\ UNCHANGED <<q_apps, q_routes, last>>

\* The largest of a set of numbers, 0 for the empty set.
MaxOf(S) == IF S = {} THEN 0 ELSE CHOOSE m \in S : \A x \in S : x <= m

\* ApplicationService.create, committed: a new application row under the
\* next id of the sequence, without routes and without dependencies.
CreateApplication ==
    LET app_id == MaxOf(DOMAIN apps) + 1
    IN  /\ app_id <= MaxId
        /\ apps' = [i \in DOMAIN apps \cup {app_id} |->
                       IF i = app_id THEN AppCode(i) ELSE apps[i]]
        /\ app_meta' = [i \in DOMAIN apps \cup {app_id} |->
                           IF i = app_id THEN DefaultMeta(i) ELSE app_meta[i]]
        /\ routes' = [i \in DOMAIN apps \cup {app_id} |->
                         IF i = app_id THEN 0 ELSE routes[i]]
        /\ UNCHANGED ulm_vars
        /\ UNCHANGED <<deps, pc, args, calls, q_path, q_deps, result,
                       q_apps, q_routes, last>>

\* DependencyService.create, committed: a new record under the next id (ids
\* up to MaxWriterDeps); the foreign keys admit it only between existing
\* applications (the provider may be null).
CreateDependency(consumer_id, provider_id) ==
    LET dep_id == MaxOf({deps[i].id : i \in 1..Len(deps)}) + 1
    IN  /\ dep_id <= MaxWriterDeps
        /\ consumer_id \in DOMAIN apps
        /\ provider_id \in DOMAIN apps \cup {None}
        /\ deps' = Append(deps,
                       DepRow([consumer_id |-> consumer_id,
                               provider_id |-> provider_id], dep_id))
    /\ UNCHANGED ulm_vars
    /\ UNCHANGED <<apps, app_meta, routes, pc, args, calls, q_path, q_deps,
                   result, q_apps, q_routes, last>>

\* ------------------------------------------ service token (clients/ulm.py)
\* if token and exp > now + 30
BufferSeconds == 30

\* data.get("expires_in") or 60 * 10
FallbackExpiresIn == 600

\* The clock is read in steps of this many seconds.
TickSeconds == 30

Tasks == 1..MaxTasks

\* Tokens: None is <<>>, the empty string <<"">>, and the access token the
\* identity service issues on the login of task t is AccessToken(t).
NoToken == <<>>

AccessToken(t) == <<"access_token", t>>

\* `if token`: None and the empty string are false.
Truthy(token) == token # <<>> /\ token # <<"">>

\* What a login response may hold under "expires_in": nothing, or a number
\* of seconds.
ExpiresInValues == {<<>>, <<0>>, <<30>>, <<60>>}

\* expires_in = data.get("expires_in") or 60 * 10: the fallback replaces a
\* missing value and a zero alike.
ExpiresIn(value) ==
    IF value = <<>> \/ value[1] = 0 THEN FallbackExpiresIn ELSE value[1]

\* Variant of CacheValid without the 30 s buffer.
CacheValid_NoBuffer(cache, now) == Truthy(cache.token) /\ cache.exp > now

\* if token and exp > now + 30
CacheValid(cache, now) ==
    Truthy(cache.token) /\ cache.exp > now + BufferSeconds

\* Variant of CanAcquireNow that never waits.
CanAcquireNow_Always(lock) == TRUE

\* asyncio.Lock.acquire takes the lock at once, without suspending, when it
\* is not locked and no task waits for it.
CanAcquireNow(lock) == ~lock.locked /\ lock.waiters = <<>>

\* asyncio.Lock.release: unlock and wake the first waiter, which stays in
\* the queue until it runs.
Release(lock) ==
    [locked |-> FALSE, waiters |-> lock.waiters, woken |-> lock.waiters # <<>>]

\* Variant of ReleaseOnError that leaves the lock as it is.
ReleaseOnError_Kept(lock) == lock

\* `async with` leaves the block by an exception: __aexit__ releases.
ReleaseOnError(lock) == Release(lock)

NoResult == [kind |-> "pending", token |-> NoToken]

\* A task that has not called yet.  now and expires_in are the locals of
\* get_service_token; waited tells whether acquire suspended, logged_in
\* whether the task sent a login request, and logins_at_call how many login
\* requests had been sent when the task called.
IdleTask ==
    [pc |-> "idle", now |-> 0, expires_in |-> 0, waited |-> FALSE,
     logged_in |-> FALSE, logins_at_call |-> 0, result |-> NoResult]

\* Task t holds the lock, with the given tasks waiting: now = time.time(),
\* the cache is read, and either the cached token is returned (and the lock
\* released) or the login request is sent.  No await lies between these
\* statements.  called is the task table with the call recorded.
Decide(called, t, waiters, waited) ==
    IF CacheValid(service_token_cache, clock)
    THEN /\ task' = [called EXCEPT ![t] =
                        [@ EXCEPT !.pc = "done", !.now = clock,
                                  !.waited = waited,
                                  !.result =
                                      [kind |-> "returned",
                                       token |-> service_token_cache.token]]]
         /\ service_token_lock' =
                Release([locked |-> TRUE, waiters |-> waiters, woken |-> FALSE])
         /\ UNCHANGED <<service_token_cache, logins>>
    ELSE /\ task' = [called EXCEPT ![t] =
                        [@ EXCEPT !.pc = "login", !.now = clock,
                                  !.waited = waited, !.logged_in = TRUE]]
         /\ service_token_lock' =
                [locked |-> TRUE, waiters |-> waiters, woken |-> FALSE]
         /\ logins' = logins + 1
         /\ UNCHANGED service_token_cache

\* A task calls get_service_token: without credentials it returns None;
\* with the lock free it decides at once; otherwise it joins the waiters.
get_service_token(t) ==
    /\ task[t].pc = "idle"
    /\ IF ~settings.configured
       THEN /\ task' = [task EXCEPT ![t] =
                           [@ EXCEPT !.pc = "done",
                                     !.result = [kind |-> "returned",
                                                 token |-> NoToken]]]
            /\ UNCHANGED <<service_token_cache, service_token_lock, logins>>
       ELSE IF CanAcquireNow(service_token_lock)
            THEN Decide([task EXCEPT ![t].logins_at_call = logins], t,
                        service_token_lock.waiters, FALSE)
            ELSE /\ task' = [task EXCEPT ![t] =
                                [@ EXCEPT !.pc = "waiting", !.waited = TRUE,
                                          !.logins_at_call = logins]]
                 /\ service_token_lock' =
                        [service_token_lock EXCEPT
                            !.waiters = Append(@, t)]
                 /\ UNCHANGED <<service_token_cache, logins>>
    /\ UNCHANGED <<settings, clock>>
    /\ UNCHANGED graph_vars

\* The first waiter, woken by a release, runs: it leaves the queue, takes
\* the lock and decides.
acquire_resume(t) ==
    /\ task[t].pc = "waiting"
    /\ service_token_lock.woken
    /\ Head(service_token_lock.waiters) = t
    /\ Decide(task, t, Tail(service_token_lock.waiters), TRUE)
    /\ UNCHANGED <<settings, clock>>
    /\ UNCHANGED graph_vars

\* The login response arrives with status 2xx and a JSON object: the cache
\* is written, the lock released, the access token returned.
login_response(t, access_token, expires_in) ==
    /\ task[t].pc = "login"
    /\ service_token_cache' =
           [token |-> access_token,
            exp |-> task[t].now + ExpiresIn(expires_in)]
    /\ service_token_lock' = Release(service_token_lock)
    /\ task' = [task EXCEPT ![t] =
                   [@ EXCEPT !.pc = "done",
                             !.expires_in = ExpiresIn(expires_in),
                             !.result = [kind |-> "returned",
                                         token |-> access_token]]]
    /\ UNCHANGED <<settings, clock, logins>>
    /\ UNCHANGED graph_vars

\* The login fails (no response within the client's timeout, an error
\* status at raise_for_status, a body that is no JSON): the exception leaves
\* the `async with` block and reaches the caller.
login_error(t) ==
    /\ task[t].pc = "login"
    /\ service_token_lock' = ReleaseOnError(service_token_lock)
    /\ task' = [task EXCEPT ![t] =
                   [@ EXCEPT !.pc = "failed",
                             !.result = [kind |-> "raised", token |-> NoToken]]]
    /\ UNCHANGED <<settings, clock, logins, service_token_cache>>
    /\ UNCHANGED graph_vars

\* Time passes.
Tick ==
    /\ clock < MaxTicks * TickSeconds
    /\ clock' = clock + TickSeconds
    /\ UNCHANGED <<settings, service_token_cache, service_token_lock, task,
                   logins>>
    /\ UNCHANGED graph_vars

\* The module as imported, with the credentials set and no task calling.
UlmAtRest ==
    /\ settings = [configured |-> TRUE]
    /\ service_token_cache = [token |-> NoToken, exp |-> 0]
    /\ service_token_lock = [locked |-> FALSE, waiters |-> <<>>, woken |-> FALSE]
    /\ task = [t \in Tasks |-> IdleTask]
    /\ clock = 0
    /\ logins = 0

\* ----------------------------------------------------------- store states
\* A committed store state: every application of the bounded id range
\* exists and the dependency records reference existing applications.
InitStore ==
    /\ apps = [i \in Ids |-> AppCode(i)]
    /\ deps \in DepSeqs
    /\ pc = "idle"
    /\ args = NoArgs
    /\ calls = {}
    /\ q_path = <<>>
    /\ q_deps = <<>>
    /\ result = Res("pending")
    /\ app_meta = [i \in Ids |-> DefaultMeta(i)]
    /\ routes = [i \in Ids |-> i % 2]
    /\ q_apps = <<>>
    /\ q_routes = <<>>
    /\ last = <<>>
    /\ UlmAtRest

NextCircular == detect_circular_dependencies

SpecCircular == InitStore /\ [][NextCircular]_vars

\* A path request served while no writer commits.
NextPath ==
    \/ \E from_app \in Ids, to_app \in Ids : find_dependency_path(from_app, to_app)
    \/ find_path_apps

SpecPath == InitStore /\ [][NextPath]_vars

\* A path request served while writers commit, also between its two reads.
NextPathWriters ==
    \/ NextPath
    \/ \E app_id \in Ids : DeleteApplication(app_id)

SpecPathWriters == InitStore /\ [][NextPathWriters]_vars

\* The store states of the full-graph requests: every application with the
\* dependency rows varying, or the applications and their attributes
\* varying with no dependency row.
InitGraph ==
    /\ \/ /\ apps = [i \in Ids |-> AppCode(i)]
          /\ app_meta = [i \in Ids |-> DefaultMeta(i)]
          /\ deps \in DepRowSeqs
       \/ /\ \E S \in SUBSET Ids :
                /\ apps = [i \in S |-> AppCode(i)]
                /\ app_meta \in [S -> AppMetaKinds]
          /\ deps = <<>>
    /\ routes = [i \in DOMAIN apps |-> i % 2]
    /\ pc = "idle"
    /\ args = NoArgs
    /\ calls = {}
    /\ q_path = <<>>
    /\ q_deps = <<>>
    /\ result = Res("pending")
    /\ q_apps = <<>>
    /\ q_routes = <<>>
    /\ last = <<>>
    /\ UlmAtRest

NextGraph ==
    \/ get_dependency_graph
    \/ get_full_graph_deps
    \/ get_full_graph_routes

SpecGraph == InitGraph /\ [][NextGraph]_vars

\* The full-graph request among writers.  Every store state satisfies the
\* foreign keys: the records name existing applications only.
InitGraphWriters ==
    /\ \E S \in SUBSET Ids :
          /\ apps = [i \in S |-> AppCode(i)]
          /\ app_meta = [i \in S |-> DefaultMeta(i)]
          /\ routes = [i \in S |-> i % 2]
          /\ deps \in {WithAttrs(ds) :
                         ds \in UNION {[1..n -> [consumer_id : S,
                                                 provider_id : S \cup {None}]] :
                                          n \in 0..MaxWriterDeps}}
    /\ pc = "idle"
    /\ args = NoArgs
    /\ calls = {}
    /\ q_path = <<>>
    /\ q_deps = <<>>
    /\ result = Res("pending")
    /\ q_apps = <<>>
    /\ q_routes = <<>>
    /\ last = <<>>
    /\ UlmAtRest

NextGraphWriters ==
    \/ get_dependency_graph
    \/ get_full_graph_deps
    \/ get_full_graph_routes
    \/ CreateApplication
    \/ \E consumer_id \in Ids, provider_id \in Ids \cup {None} :
          CreateDependency(consumer_id, provider_id)
    \/ \E app_id \in Ids : DeleteApplication(app_id)

SpecGraphWriters == InitGraphWriters /\ [][NextGraphWriters]_vars

\* The store states of the tree requests: every application, the dependency
\* rows varying.
InitTree ==
    /\ apps = [i \in Ids |-> AppCode(i)]
    /\ app_meta = [i \in Ids |-> DefaultMeta(i)]
    /\ deps \in DepRowSeqs
    /\ routes = [i \in Ids |-> i % 2]
    /\ pc = "idle"
    /\ args = NoArgs
    /\ calls = {}
    /\ q_path = <<>>
    /\ q_deps = <<>>
    /\ result = Res("pending")
    /\ q_apps = <<>>
    /\ q_routes = <<>>
    /\ last = <<>>
    /\ UlmAtRest

\* The root ids requested: an application and an id that is none.  The
\* stores hold every sequence of records over all the ids, so a request for
\* another application is a renaming of one for the first.
RootIds == {1, MaxId + 1}

NextTree ==
    \/ \E app_id \in RootIds, max_depth \in 0..MaxDepth :
          get_app_dependencies_tree(app_id, max_depth)
    \/ build_tree

SpecTree == InitTree /\ [][NextTree]_vars

\* The tree requests on stores one application larger and one record longer.
WideIds == 1..(MaxId + 1)

WideDepSeqs ==
    UNION {[1..n -> [consumer_id : WideIds, provider_id : WideIds \cup {None}]] :
              n \in 0..(MaxDeps + 1)}

InitTreeWide ==
    /\ apps = [i \in WideIds |-> AppCode(i)]
    /\ app_meta = [i \in WideIds |-> DefaultMeta(i)]
    /\ deps \in {WithAttrs(ds) : ds \in WideDepSeqs}
    /\ routes = [i \in WideIds |-> i % 2]
    /\ pc = "idle"
    /\ args = NoArgs
    /\ calls = {}
    /\ q_path = <<>>
    /\ q_deps = <<>>
    /\ result = Res("pending")
    /\ q_apps = <<>>
    /\ q_routes = <<>>
    /\ last = <<>>
    /\ UlmAtRest

NextTreeWide ==
    \/ \E app_id \in {1, MaxId + 2}, max_depth \in 0..MaxDepth :
          get_app_dependencies_tree(app_id, max_depth)
    \/ build_tree

SpecTreeWide == InitTreeWide /\ [][NextTreeWide]_vars

\* Path requests on stores where several shortest paths exist: one
\* application more and one record longer.  The source is application 1 and
\* the target the last one; records into the source (visited from the start)
\* and out of the target (never scanned: the search ends when the target is
\* dequeued) are left out, as are records without provider, records of an
\* application on itself and repeated records.
TieDepKinds ==
    {d \in [consumer_id : WideIds \ {MaxId + 1}, provider_id : WideIds \ {1}] :
        d.consumer_id # d.provider_id}

TieDepSeqs ==
    {ds \in UNION {[1..n -> TieDepKinds] : n \in 0..(MaxDeps + 1)} :
        \A i \in 1..Len(ds), j \in 1..Len(ds) : ds[i] = ds[j] => i = j}

InitPathTies ==
    /\ apps = [i \in WideIds |-> AppCode(i)]
    /\ deps \in TieDepSeqs
    /\ pc = "idle"
    /\ args = NoArgs
    /\ calls = {}
    /\ q_path = <<>>
    /\ q_deps = <<>>
    /\ result = Res("pending")
    /\ app_meta = [i \in WideIds |-> DefaultMeta(i)]
    /\ routes = [i \in WideIds |-> i % 2]
    /\ q_apps = <<>>
    /\ q_routes = <<>>
    /\ last = <<>>
    /\ UlmAtRest

NextPathTies ==
    \/ \E to_app \in {1, MaxId + 1} : find_dependency_path(1, to_app)
    \/ find_path_apps

SpecPathTies == InitPathTies /\ [][NextPathTies]_vars

\* Two requests in a row: the stores of the repeated requests, with up to
\* MaxTwiceDeps dependency rows.
TwiceDepSeqs == UNION {[1..n -> DepKinds] : n \in 0..MaxTwiceDeps}

InitTwice ==
    /\ apps = [i \in Ids |-> AppCode(i)]
    /\ app_meta = [i \in Ids |-> DefaultMeta(i)]
    /\ deps \in {WithAttrs(ds) : ds \in TwiceDepSeqs}
    /\ routes = [i \in Ids |-> i % 2]
    /\ pc = "idle"
    /\ args = NoArgs
    /\ calls = {}
    /\ q_path = <<>>
    /\ q_deps = <<>>
    /\ result = Res("pending")
    /\ q_apps = <<>>
    /\ q_routes = <<>>
    /\ last = <<>>
    /\ UlmAtRest

\* A request of any of the five queries arrives.
Request ==
    \/ get_dependency_graph
    \/ \E app_id \in RootIds, max_depth \in 0..MaxDepth :
          get_app_dependencies_tree(app_id, max_depth)
    \/ \E from_app, to_app \in Ids : find_dependency_path(from_app, to_app)
    \/ get_critical_dependencies
    \/ detect_circular_dependencies

\* The later steps of a request being served.
Serve ==
    \/ get_full_graph_deps
    \/ get_full_graph_routes
    \/ build_tree
    \/ find_path_apps

\* The request being served is the one served before.
SameRequest ==
    /\ last # <<>>
    /\ calls \cap ServiceNames = last[1].service
    /\ args = last[1].args

\* No request was served yet, or the one being served is the one before.
FirstOrSame == last = <<>> \/ SameRequest

\* A first request, and after it the same request again.
NextTwice ==
    \/ get_dependency_graph /\ FirstOrSame'
    \/ \E app_id \in RootIds, max_depth \in 0..MaxDepth :
          get_app_dependencies_tree(app_id, max_depth) /\ FirstOrSame'
    \/ \E from_app, to_app \in Ids :
          find_dependency_path(from_app, to_app) /\ FirstOrSame'
    \/ get_critical_dependencies /\ FirstOrSame'
    \/ detect_circular_dependencies /\ FirstOrSame'
    \/ get_full_graph_deps
    \/ get_full_graph_routes
    \/ build_tree
    \/ find_path_apps
    \/ respond

SpecTwice == InitTwice /\ [][NextTwice]_vars

\* The stores of the critical-dependencies requests: the criticality and
\* the presence of a provider vary from row to row, the consumer goes round
\* the applications.
CriticalRowKinds ==
    [internal : BOOLEAN, criticality : DOMAIN DependencyCriticalityValue]

CriticalRow(k, i) ==
    [id |-> i,
     consumer_id |-> Cyclic([j \in 1..MaxId |-> j], i),
     provider_id |-> IF k.internal THEN Cyclic([j \in 1..MaxId |-> j], i + 1)
                     ELSE None,
     name |-> <<"dep", i>>,
     type |-> Cyclic(<<"SERVICE", "DATABASE">>, i),
     criticality |-> k.criticality]

CriticalRowSeqs ==
    {[i \in 1..Len(ks) |-> CriticalRow(ks[i], i)] :
        ks \in UNION {[1..n -> CriticalRowKinds] : n \in 0..MaxDeps}}

InitCritical ==
    /\ apps = [i \in Ids |-> AppCode(i)]
    /\ app_meta = [i \in Ids |-> DefaultMeta(i)]
    /\ deps \in CriticalRowSeqs
    /\ routes = [i \in Ids |-> i % 2]
    /\ pc = "idle"
    /\ args = NoArgs
    /\ calls = {}
    /\ q_path = <<>>
    /\ q_deps = <<>>
    /\ result = Res("pending")
    /\ q_apps = <<>>
    /\ q_routes = <<>>
    /\ last = <<>>
    /\ UlmAtRest

NextCritical == get_critical_dependencies

SpecCritical == InitCritical /\ [][NextCritical]_vars

\* The service-token cache: the graph store at rest, the credentials set or
\* not.
InitToken ==
    /\ apps = [i \in Ids |-> AppCode(i)]
    /\ app_meta = [i \in Ids |-> DefaultMeta(i)]
    /\ deps = <<>>
    /\ routes = [i \in Ids |-> i % 2]
    /\ pc = "idle"
    /\ args = NoArgs
    /\ calls = {}
    /\ q_path = <<>>
    /\ q_deps = <<>>
    /\ result = Res("pending")
    /\ q_apps = <<>>
    /\ q_routes = <<>>
    /\ last = <<>>
    /\ settings \in [configured : BOOLEAN]
    /\ service_token_cache = [token |-> NoToken, exp |-> 0]
    /\ service_token_lock = [locked |-> FALSE, waiters |-> <<>>, woken |-> FALSE]
    /\ task = [t \in Tasks |-> IdleTask]
    /\ clock = 0
    /\ logins = 0

NextToken ==
    \/ \E t \in Tasks : get_service_token(t)
    \/ \E t \in Tasks : acquire_resume(t)
    \/ \E t \in Tasks, expires_in \in ExpiresInValues :
          \E access_token \in {NoToken, AccessToken(t)} :
              login_response(t, access_token, expires_in)
    \/ \E t \in Tasks : login_error(t)
    \/ Tick

SpecToken == InitToken /\ [][NextToken]_vars

\* A woken waiter runs, and a login request ends (the client has a timeout
\* of 30 s), with a response or with an error.
FairToken ==
    /\ \A t \in Tasks : WF_vars(acquire_resume(t))
    /\ \A t \in Tasks :
          WF_vars(\/ \E expires_in \in ExpiresInValues :
                        \E access_token \in {NoToken, AccessToken(t)} :
                            login_response(t, access_token, expires_in)
                  \/ login_error(t))

SpecTokenFair == InitToken /\ [][NextToken]_vars /\ FairToken

Init == InitTree

Next ==
    \/ Request
    \/ Serve
    \/ respond
    \/ \E app_id \in Ids : DeleteApplication(app_id)
    \/ CreateApplication
    \/ \E consumer_id \in Ids, provider_id \in Ids \cup {None} :
          CreateDependency(consumer_id, provider_id)
    \/ NextToken

Spec == Init /\ [][Next]_vars

\* ------------------------------------------------ graph notions of the spec
\* The directed edge set: (consumer, provider) of the records with a
\* non-null provider.
EdgeSet(ds) ==
    {<<ds[i].consumer_id, ds[i].provider_id>> :
        i \in {j \in 1..Len(ds) : ds[j].provider_id # None}}

Successors(E, S) == {e[2] : e \in {x \in E : x[1] \in S}}

RECURSIVE ReachableFrom(_, _)
ReachableFrom(E, S) ==
    LET T == S \cup Successors(E, S)
    IN  IF T = S THEN S ELSE ReachableFrom(E, T)

\* n lies on a directed cycle (a self-loop included).
OnCycle(E, n) == n \in ReachableFrom(E, Successors(E, {n}))

HasCycle(E) == \E e \in E : OnCycle(E, e[1])

NodesOf(E) == {e[1] : e \in E} \cup {e[2] : e \in E}

\* E is exactly one simple directed cycle through all its nodes.
IsOneSimpleCycle(E) ==
    /\ E # {}
    /\ \A n \in NodesOf(E) :
          /\ Cardinality({e \in E : e[1] = n}) = 1
          /\ Cardinality({e \in E : e[2] = n}) = 1
          /\ ReachableFrom(E, {n}) = NodesOf(E)

\* c is a closed walk of E: first = last, every step an edge.
IsDirectedCycle(E, c) ==
    /\ Len(c) >= 2
    /\ c[1] = c[Len(c)]
    /\ \A i \in 1..(Len(c) - 1) : <<c[i], c[i + 1]>> \in E

Elems(s) == {s[i] : i \in 1..Len(s)}

CircularDone == pc = "done" /\ "get_circular_dependencies" \in calls

\* --------------------------------------------------------------- claims
\* C1: on every store whose non-null-provider records form an acyclic graph
\* (non-empty ones included), get_circular_dependencies completes and
\* returns the empty list.
C1_AcyclicReturnsEmpty ==
    (CircularDone /\ ~HasCycle(EdgeSet(q_deps)))
        => (result.kind = "cycles" /\ result.cycles = <<>>)

\* C2: every sequence returned by get_circular_dependencies is a directed
\* cycle of the edge set: first = last and every consecutive pair is the
\* (consumer, provider) of a record.
C2_EveryCycleIsReal ==
    (CircularDone /\ result.kind = "cycles")
        => \A k \in 1..Len(result.cycles) :
              IsDirectedCycle(EdgeSet(q_deps), result.cycles[k])

\* C3: whenever the edge set has a directed cycle, for every record order,
\* the call completes and returns a non-empty list.
C3_CycleGivesNonEmpty ==
    (CircularDone /\ HasCycle(EdgeSet(q_deps)))
        => (result.kind = "cycles" /\ result.cycles # <<>>)

\* C4: when the edge set is exactly one simple directed cycle, the call
\* returns at least one cycle that contains every node of it.
C4_SimpleCycleFound ==
    (CircularDone /\ IsOneSimpleCycle(EdgeSet(q_deps)))
        => /\ result.kind = "cycles"
           /\ \E k \in 1..Len(result.cycles) :
                 NodesOf(EdgeSet(q_deps)) \subseteq Elems(result.cycles[k])

\* C4 witness: a simple cycle through at least two nodes has been searched.
C4_Witness ==
    /\ CircularDone
    /\ IsOneSimpleCycle(EdgeSet(q_deps))
    /\ Cardinality(NodesOf(EdgeSet(q_deps))) >= 2
    /\ result.cycles # <<>>

\* Nodes reachable from S by at most k edges.
RECURSIVE ReachWithin(_, _, _)
ReachWithin(E, S, k) ==
    IF k <= 0 THEN S ELSE ReachWithin(E, S \cup Successors(E, S), k - 1)

FindPathCalled == "find_path" \in calls

\* The id of the application that carries a code.
IdOfCode(c) == CHOOSE i \in Ids : AppCode(i) = c

\* C5: whenever find_path returns a path, its hop count is at most the hop
\* count of every directed path from from_app to to_app in the edge set:
\* to_app is not reachable in fewer hops than the reported length.
C5_ShortestPath ==
    (FindPathCalled /\ result.kind = "DependencyPath")
        => /\ result.length >= 1
           /\ args.to_app \notin
                 ReachWithin(EdgeSet(q_deps), {args.from_app}, result.length - 1)

\* C5 witness: a one-hop path was returned although a two-hop path to the
\* same target exists as well.
C5_Witness ==
    /\ FindPathCalled
    /\ result.kind = "DependencyPath"
    /\ result.length = 1
    /\ \E x \in Ids \ {args.from_app, args.to_app} :
          /\ <<args.from_app, x>> \in EdgeSet(q_deps)
          /\ <<x, args.to_app>> \in EdgeSet(q_deps)

\* C6: every path returned by find_path starts at from_app, ends at to_app,
\* and each consecutive pair of its nodes is the (consumer, provider) of
\* some dependency record.
C6_PathFollowsEdges ==
    (FindPathCalled /\ result.kind = "DependencyPath")
        => /\ result.path[1] = AppCode(args.from_app)
           /\ result.path[Len(result.path)] = AppCode(args.to_app)
           /\ \A i \in 1..(Len(result.path) - 1) :
                 <<IdOfCode(result.path[i]), IdOfCode(result.path[i + 1])>>
                     \in EdgeSet(q_deps)

\* C7: for from_app # to_app, find_path returns None if and only if to_app
\* is not reachable from from_app along consumer -> provider edges; the
\* search ends on every edge set, cyclic ones included.
C7_NoneIffUnreachable ==
    (FindPathCalled /\ args.from_app # args.to_app)
        => /\ pc \in {"find_path_apps", "done"}
           /\ (result.kind = "None")
                 <=> (args.to_app \notin ReachableFrom(EdgeSet(q_deps), {args.from_app}))

\* C7 witness: the source lies on a cycle, the target is unreachable, and
\* the search returned None.
C7_Witness ==
    /\ FindPathCalled
    /\ result.kind = "None"
    /\ OnCycle(EdgeSet(q_deps), args.from_app)
    /\ args.to_app \notin ReachableFrom(EdgeSet(q_deps), {args.from_app})

\* C8: a path request with from_app = to_app is answered with HTTP 400
\* before any store read: find_path is not invoked for it.
C8_SameAppRejected ==
    (pc # "idle" /\ args.from_app = args.to_app)
        => /\ result.kind = "HTTP_400"
           /\ pc = "done"
           /\ calls = {}
           /\ q_deps = <<>>
           /\ q_path = <<>>

\* C8 witness: a request with equal ids has been rejected.
C8_Witness ==
    /\ result.kind = "HTTP_400"
    /\ args.from_app = args.to_app
    /\ args.from_app \in Ids

\* C9: find_path never fails: it ends with a path or with None, also when
\* ids it meets are absent from the application set.
C9_FindPathNeverFails ==
    (FindPathCalled /\ pc = "done") => result.kind \in {"None", "DependencyPath"}

\* C10: in every DependencyPath returned, length = number of entries of
\* path minus one, path[0] is the source's code and the last entry is the
\* target's code.
C10_LengthMatchesPath ==
    (FindPathCalled /\ result.kind = "DependencyPath")
        => /\ result.length = Len(result.path) - 1
           /\ result.path[1] = result.from_app
           /\ result.from_app = AppCode(args.from_app)
           /\ result.path[Len(result.path)] = result.to_app
           /\ result.to_app = AppCode(args.to_app)

\* ------------------------------------------------------ full-graph claims
GraphDone ==
    pc = "done" /\ "get_full_graph" \in calls /\ result.kind = "DependencyGraph"

\* The positions of the records read that satisfy a condition on the record.
RecordsWhere(ds, Cond(_)) == {i \in 1..Len(ds) : Cond(ds[i])}

RECURSIVE SumOf(_)
SumOf(f) ==
    IF DOMAIN f = {} THEN 0
    ELSE LET k == CHOOSE x \in DOMAIN f : TRUE
         IN  f[k] + SumOf([x \in DOMAIN f \ {k} |-> f[x]])

\* C11: for every node of the full graph, dependencies_count is the number
\* of dependency records whose consumer_id is the node's id (null-provider
\* records included) and dependents_count the number whose provider_id is
\* the node's id; a node in no record gets 0 for both.
C11_NodeCounts ==
    GraphDone =>
        /\ Len(result.nodes) = Len(q_apps)
        /\ \A k \in 1..Len(result.nodes) :
              LET node == result.nodes[k]
              IN  /\ node.id = q_apps[k].id
                  /\ node.dependencies_count =
                        Cardinality(RecordsWhere(q_deps, LAMBDA d : d.consumer_id = node.id))
                  /\ node.dependents_count =
                        Cardinality(RecordsWhere(q_deps, LAMBDA d : d.provider_id = node.id))

\* C11 witness: a graph in which one node has two records as consumer, one
\* of them without provider, and another node occurs in no record.
C11_Witness ==
    /\ GraphDone
    /\ \E k \in 1..Len(result.nodes) :
          /\ result.nodes[k].dependencies_count >= 2
          /\ RecordsWhere(q_deps, LAMBDA d : d.consumer_id = result.nodes[k].id
                                             /\ d.provider_id = None) # {}
    /\ \E k \in 1..Len(result.nodes) :
          /\ result.nodes[k].dependencies_count = 0
          /\ result.nodes[k].dependents_count = 0
    /\ \E k \in 1..Len(result.nodes) : result.nodes[k].dependents_count >= 1

\* C12: the edges are exactly the dependency records with a non-null
\* provider, one edge each (source = consumer_id, target = provider_id),
\* none for a null-provider record; total_dependencies counts all records,
\* so total_dependencies - len(edges) is the number of null-provider records.
C12_EdgesMatchRecords ==
    GraphDone =>
        LET internal == RecordsWhere(q_deps, LAMBDA d : d.provider_id # None)
            external == RecordsWhere(q_deps, LAMBDA d : d.provider_id = None)
            edges == result.edges
        IN  /\ Len(edges) = Cardinality(internal)
            /\ \A i \in internal :
                  /\ Cardinality({k \in 1..Len(edges) : edges[k].id = q_deps[i].id}) = 1
                  /\ \E k \in 1..Len(edges) :
                        /\ edges[k].id = q_deps[i].id
                        /\ edges[k].source = q_deps[i].consumer_id
                        /\ edges[k].target = q_deps[i].provider_id
            /\ \A k \in 1..Len(edges) :
                  /\ edges[k].target # None
                  /\ \A i \in external : edges[k].id # q_deps[i].id
            /\ result.total_dependencies = Len(q_deps)
            /\ result.total_dependencies - Len(edges) = Cardinality(external)

\* C12 witness: a graph built from records with and without provider.
C12_Witness ==
    /\ GraphDone
    /\ RecordsWhere(q_deps, LAMBDA d : d.provider_id = None) # {}
    /\ Len(result.edges) >= 2

\* C13: by_type and by_status each sum to the number of nodes, by_category
\* sums to the number of nodes with a non-empty category; an empty store
\* yields no node, no edge and zero counts.
C13_StatsPartition ==
    GraphDone =>
        LET nodes == result.nodes
            stats == result.stats
        IN  /\ SumOf(stats.by_type) = Len(nodes)
            /\ SumOf(stats.by_status) = Len(nodes)
            /\ SumOf(stats.by_category) =
                  Cardinality({k \in 1..Len(nodes) :
                      nodes[k].category # <<>> /\ nodes[k].category # <<"">>})
            /\ (q_apps = <<>> /\ q_deps = <<>>) =>
                  /\ nodes = <<>>
                  /\ result.edges = <<>>
                  /\ result.total_apps = 0
                  /\ result.total_dependencies = 0
                  /\ stats.total_nodes = 0
                  /\ stats.total_edges = 0
                  /\ DOMAIN stats.by_type = {}
                  /\ DOMAIN stats.by_status = {}
                  /\ DOMAIN stats.by_category = {}

\* C13 witness: a graph with two nodes of one type, a node with a category
\* and a node without one.
C13_Witness ==
    /\ GraphDone
    /\ \E j, k \in 1..Len(result.nodes) :
          j # k /\ result.nodes[j].type = result.nodes[k].type
    /\ \E k \in 1..Len(result.nodes) : result.nodes[k].category = <<>>
    /\ \E k \in 1..Len(result.nodes) : result.nodes[k].category = <<"">>
    /\ SumOf(result.stats.by_category) >= 1

\* ---------------------------------------------------------- tree claims
TreeDone == pc = "done" /\ "get_app_dependencies_tree" \in calls

TreeReturned == TreeDone /\ result.kind = "DependencyTree"

\* The nodes of a tree in preorder, each with its depth below the root and
\* the id of its parent (None for the root).
RECURSIVE Flatten(_, _, _), FlattenAll(_, _, _, _)
Flatten(t, depth, parent) ==
    <<[id |-> t.app_id, depth |-> depth, parent |-> parent,
       info |-> t.dependency_info, fanout |-> Len(t.children)]>>
    \o FlattenAll(t.children, 1, depth + 1, t.app_id)

FlattenAll(ch, i, depth, parent) ==
    IF i > Len(ch) THEN <<>>
    ELSE Flatten(ch[i], depth, parent) \o FlattenAll(ch, i + 1, depth, parent)

TreeNodes == Flatten(result.tree, 0, None)

TreeIds == {TreeNodes[k].id : k \in 1..Len(TreeNodes)}

\* C14: the traversal of get_app_dependencies_tree has a result on every
\* store and max_depth (cycles and self-loops included), a returned tree has
\* no more nodes than there are applications, on A->B->A rooted at A it is A
\* with the single child B and B childless, and on A->A it is A alone.
C14_TreeTerminates ==
    /\ pc = "build_tree" =>
          LET r == BuildTree(deps, args.app_id, 0, args.max_depth, {})
          IN  \/ r.tree = <<>>
              \/ Len(Flatten(r.tree[1], 0, None)) <= Cardinality(DOMAIN apps)
    /\ TreeReturned => Len(TreeNodes) <= Cardinality(DOMAIN apps)
    /\ \A a, b \in Ids :
          ( /\ TreeReturned
            /\ a # b
            /\ args.app_id = a
            /\ args.max_depth >= 1
            /\ EdgeSet(q_deps) = {<<a, b>>, <<b, a>>} )
          => /\ Len(TreeNodes) = 2
             /\ TreeNodes[1].id = a /\ TreeNodes[1].fanout = 1
             /\ TreeNodes[2].id = b /\ TreeNodes[2].fanout = 0
             /\ TreeNodes[2].parent = a
    /\ \A a \in Ids :
          (TreeReturned /\ args.app_id = a /\ EdgeSet(q_deps) = {<<a, a>>})
          => Len(TreeNodes) = 1

C14_Witness ==
    /\ TreeReturned
    /\ args.app_id = 1
    /\ args.max_depth = MaxDepth
    /\ EdgeSet(q_deps) = {<<1, 2>>, <<2, 1>>}
    /\ Len(result.tree.children) = 1

\* C15: no application id occurs twice among the nodes of a returned tree,
\* also when an application is reachable by two paths or two records join
\* the same pair.
C15_NoIdTwice ==
    TreeReturned =>
        \A j, k \in 1..Len(TreeNodes) :
            j # k => TreeNodes[j].id # TreeNodes[k].id

\* A diamond: an application of the tree is the provider of records of two
\* different consumers of the tree.
C15_Witness ==
    /\ TreeReturned
    /\ \E i, j \in 1..Len(q_deps) :
          /\ q_deps[i].provider_id = q_deps[j].provider_id
          /\ q_deps[i].consumer_id # q_deps[j].consumer_id
          /\ {q_deps[i].consumer_id, q_deps[j].consumer_id,
              q_deps[i].provider_id} \subseteq TreeIds
          /\ q_deps[i].provider_id # args.app_id
          /\ q_deps[i].provider_id \notin
                {q_deps[i].consumer_id, q_deps[j].consumer_id}

\* C16: every node of a returned tree is at depth at most max_depth, nodes
\* at depth max_depth are childless, an existing root asked with
\* max_depth = 0 gives a childless node, and so does an existing root
\* without outgoing records.
C16_DepthBound ==
    /\ TreeReturned =>
          \A k \in 1..Len(TreeNodes) :
              /\ TreeNodes[k].depth <= args.max_depth
              /\ TreeNodes[k].depth = args.max_depth => TreeNodes[k].fanout = 0
    /\ ( /\ TreeDone
         /\ args.app_id \in DOMAIN apps
         /\ \/ args.max_depth = 0
            \/ \A i \in 1..Len(q_deps) : q_deps[i].consumer_id # args.app_id )
       => /\ TreeReturned
          /\ result.tree.children = <<>>

\* A node at depth max_depth that has a record to an application the tree
\* does not hold.
C16_Witness ==
    /\ TreeReturned
    /\ args.max_depth >= 1
    /\ \E k \in 1..Len(TreeNodes), i \in 1..Len(q_deps) :
          /\ TreeNodes[k].depth = args.max_depth
          /\ q_deps[i].consumer_id = TreeNodes[k].id
          /\ q_deps[i].provider_id # None
          /\ q_deps[i].provider_id \notin TreeIds

\* C17: every application within max_depth consumer->provider edges of the
\* root is a node of the returned tree, in whatever order the records are
\* read.
C17_AllWithinDepthShown ==
    TreeReturned =>
        ReachWithin(EdgeSet(q_deps), {args.app_id}, args.max_depth)
            \subseteq TreeIds

\* C18: in a returned tree the root has no dependency_info, and every other
\* node is the non-null provider of a record whose consumer is its parent
\* and whose name, type and criticality are its dependency_info; a record
\* without provider gives no child.
C18_InfoFromRecord ==
    TreeReturned =>
        /\ TreeNodes[1].info = <<>>
        /\ \A k \in 2..Len(TreeNodes) :
              /\ TreeNodes[k].id # None
              /\ \E i \in 1..Len(q_deps) :
                    /\ q_deps[i].consumer_id = TreeNodes[k].parent
                    /\ q_deps[i].provider_id = TreeNodes[k].id
                    /\ TreeNodes[k].info =
                          <<[name |-> q_deps[i].name,
                             type |-> DependencyTypeValue[q_deps[i].type],
                             criticality |->
                                 DependencyCriticalityValue[q_deps[i].criticality]]>>
        /\ \A k \in 1..Len(TreeNodes) :
              TreeNodes[k].fanout <=
                  Cardinality({i \in 1..Len(q_deps) :
                                  /\ q_deps[i].consumer_id = TreeNodes[k].id
                                  /\ q_deps[i].provider_id # None})

\* The root has a child, a record without provider, and two records to the
\* same provider.
C18_Witness ==
    /\ TreeReturned
    /\ Len(result.tree.children) >= 1
    /\ \E i \in 1..Len(q_deps) :
          q_deps[i].consumer_id = args.app_id /\ q_deps[i].provider_id = None
    /\ \E i, j \in 1..Len(q_deps) :
          /\ i # j
          /\ q_deps[i].consumer_id = args.app_id
          /\ q_deps[j].consumer_id = args.app_id
          /\ q_deps[i].provider_id = q_deps[j].provider_id
          /\ q_deps[i].provider_id \notin {None, args.app_id}

\* C19: a tree request ends in the not-found result exactly when the root id
\* is no application, then without a call of build_tree; for an existing
\* root the result is a tree whose root has the id and the code of that
\* application.
C19_NotFoundIffNoRoot ==
    TreeDone =>
        /\ result.kind \in {"None", "DependencyTree"}
        /\ result.kind = "None" <=> args.app_id \notin DOMAIN apps
        /\ result.kind = "None" => "build_tree" \notin calls
        /\ result.kind = "DependencyTree" =>
              /\ result.tree.app_id = args.app_id
              /\ result.tree.app_code = apps[args.app_id]

C19_Witness ==
    /\ TreeDone
    /\ result.kind = "None"
    /\ args.app_id \notin DOMAIN apps
    /\ Len(deps) >= 1

C21_QueriesLeaveStore ==
    [][ /\ apps' = apps
        /\ deps' = deps
        /\ app_meta' = app_meta
        /\ routes' = routes ]_vars

\* A failed query was served and answered, and the same query has failed
\* again on the store it left.
C21_Witness ==
    /\ pc = "done"
    /\ SameRequest
    /\ result.kind = "RuntimeError"
    /\ last[1].result.kind = "RuntimeError"
    /\ Len(deps) >= 1
    /\ deps = last[1].deps

CriticalDone == pc = "done" /\ "get_critical_dependencies" \in calls

\* C22: the critical-dependencies result holds one item for each record
\* whose criticality has the value "critical", null-provider records
\* included, in record order, with that record's fields, and nothing else.
C22_ExactlyTheCritical ==
    CriticalDone =>
        LET crit == {i \in 1..Len(deps) :
                        DependencyCriticalityValue[deps[i].criticality] = "critical"}
            items == result.items
        IN  /\ result.kind = "CriticalDependencies"
            /\ Len(items) = Cardinality(crit)
            /\ {items[k].id : k \in 1..Len(items)} = {deps[i].id : i \in crit}
            /\ \A j, k \in 1..Len(items) : j < k => items[j].id < items[k].id
            /\ \A k \in 1..Len(items) : \E i \in crit :
                  /\ items[k].id = deps[i].id
                  /\ items[k].name = deps[i].name
                  /\ items[k].consumer_id = deps[i].consumer_id
                  /\ items[k].provider_id = deps[i].provider_id
                  /\ items[k].criticality = "critical"
                  /\ items[k].type = DependencyTypeValue[deps[i].type]

\* Two critical records, one of them without provider, among records of
\* another criticality.
C22_Witness ==
    /\ CriticalDone
    /\ Len(result.items) >= 2
    /\ \E k \in 1..Len(result.items) : result.items[k].provider_id = None
    /\ \E k \in 1..Len(result.items) : result.items[k].provider_id # None
    /\ \E i \in 1..Len(deps) : deps[i].criticality # "CRITICAL"

\* Every committed store state keeps the foreign keys of the records.
ReferentialIntegrity ==
    \A i \in 1..Len(deps) :
        /\ deps[i].consumer_id \in DOMAIN apps
        /\ deps[i].provider_id \in DOMAIN apps \cup {None}

\* C23: source and target of every edge of a full-graph result are ids of
\* nodes of the same result, also when writers commit between the reads of
\* the request.
C23_EdgesJoinNodes ==
    GraphDone =>
        LET ids == {result.nodes[k].id : k \in 1..Len(result.nodes)}
        IN  \A k \in 1..Len(result.edges) :
                /\ result.edges[k].source \in ids
                /\ result.edges[k].target \in ids


\* ---------------------------------------------------------------- C24
InLogin == {t \in Tasks : task[t].pc = "login"}

\* C24: whatever the number of tasks that have called get_service_token, at
\* most one of them is between reading the cache and writing it, and it
\* holds the lock: at most one login request is in flight at any time.
C24_OneLoginInFlight ==
    /\ Cardinality(InLogin) <= 1
    /\ InLogin # {} => service_token_lock.locked

\* A login is in flight while another task that called waits for the lock.
C24_Witness ==
    /\ InLogin # {}
    /\ \E t \in Tasks : task[t].pc = "waiting"

\* ---------------------------------------------------------------- C25
\* The expiry the cache is to hold after a login: the time of the call plus
\* the response's expires_in, 600 seconds when the response gives none.
StatedExpiry(now, value) ==
    now + (IF value = <<>> THEN FallbackExpiresIn ELSE value[1])

\* C25: the cached token is reused, without a login request, only while it
\* is non-empty and its expiry is more than 30 seconds after the current
\* time; otherwise the task logs in, and the cache then holds the new token
\* with expiry = time of the call + expires_in (600 when none is given).
C25_ReuseOrRefresh ==
    [][/\ \A t \in Tasks :
             (task[t].pc \in {"idle", "waiting"} /\ task'[t].pc = "done"
                 /\ settings.configured)
             => /\ Truthy(service_token_cache.token)
                /\ service_token_cache.exp > clock + BufferSeconds
                /\ task'[t].result.token = service_token_cache.token
                /\ logins' = logins
       /\ \A t \in Tasks :
             (task[t].pc \in {"idle", "waiting"} /\ task'[t].pc = "login")
             => ~(/\ Truthy(service_token_cache.token)
                  /\ service_token_cache.exp > clock + BufferSeconds)
       /\ \A t \in Tasks, expires_in \in ExpiresInValues :
             \A access_token \in {NoToken, AccessToken(t)} :
                 login_response(t, access_token, expires_in)
                 => /\ service_token_cache'.token = access_token
                    /\ service_token_cache'.exp =
                           StatedExpiry(task[t].now, expires_in)]_vars

\* ---------------------------------------------------------------- C28
\* f sent the first login request, with the cache empty, and it succeeded
\* with a non-empty token good for more than 30 seconds.
FirstLogin(f) ==
    /\ task[f].pc = "done"
    /\ task[f].logged_in
    /\ task[f].logins_at_call = 0
    /\ Truthy(task[f].result.token)
    /\ task[f].expires_in > BufferSeconds

\* t called while the first login was in flight, hence with the cache
\* empty, and has since got the lock.
Follower(t) ==
    /\ task[t].waited
    /\ task[t].logins_at_call = 1
    /\ task[t].pc \in {"login", "done", "failed"}

\* t read the clock while the expiry f recorded was more than 30 seconds
\* ahead.
InTime(f, t) == task[f].now + task[f].expires_in > task[t].now + BufferSeconds

\* C28 as stated: k >= 2 tasks call concurrently while the cache is empty
\* and the login succeeds with expires_in > 30: one login request is sent
\* and all k calls return that same token.
C28_OneLoginForAll ==
    \A f \in Tasks, t \in Tasks :
        (FirstLogin(f) /\ Follower(t))
        => /\ ~task[t].logged_in
           /\ task[t].result = task[f].result

\* C28, amended: of the tasks that called during the first login, those
\* that get the lock while the recorded expiry is still more than 30 seconds
\* ahead return the first token without a login request, and the others do
\* not return it: they log in again or reuse the token of a later login.
C28_OneLoginWhileFresh ==
    \A f \in Tasks, t \in Tasks :
        (FirstLogin(f) /\ Follower(t))
        => IF InTime(f, t)
           THEN /\ ~task[t].logged_in
                /\ task[t].result = task[f].result
           ELSE task[t].result # task[f].result

\* A task that waited during the first login got the lock in time and
\* returned the first token.
C28_Witness ==
    \E f \in Tasks, t \in Tasks :
        /\ FirstLogin(f) /\ Follower(t) /\ InTime(f, t)
        /\ task[t].pc = "done"
        /\ task[t].result.token = AccessToken(f)

\* ---------------------------------------------------------------- C29
Decided(t) == task[t].pc \in {"login", "done", "failed"}

\* C29: when the login request of a task fails, that task gets the error,
\* the cached token and expiry stay as they were and the lock is released;
\* every task waiting for the lock eventually makes its own decision.
C29_FailureReleases ==
    /\ [][\A t \in Tasks :
             login_error(t)
             => /\ task'[t].result.kind = "raised"
                /\ service_token_cache' = service_token_cache
                /\ ~service_token_lock'.locked]_vars
    /\ \A t \in Tasks : (task[t].pc = "waiting") ~> Decided(t)

\* A login failed, and a task that had waited for the lock has decided.
C29_Witness ==
    /\ \E t \in Tasks : task[t].pc = "failed"
    /\ \E t \in Tasks : task[t].waited /\ Decided(t)

\* ---------------------------------------------------------------- C26
\* The positions of the records (consumer u, provider v).
RecordsOf(ds, u, v) ==
    {i \in 1..Len(ds) : ds[i].consumer_id = u /\ ds[i].provider_id = v}

Least(S) == CHOOSE x \in S : \A y \in S : x <= y

\* The positions in `level` of the nodes that have a record to v.
Discoverers(ds, level, v) ==
    {i \in 1..Len(level) : RecordsOf(ds, level[i], v) # {}}

\* The nodes first reached from `level` (the nodes one hop nearer, in the
\* order of their discovery), in the order of their own discovery: by the
\* position of the discovering node, then by the position of the record.
NextLevel(ds, level, seen) ==
    LET new == {v \in WideIds \ seen : Discoverers(ds, level, v) # {}}
        by(v) == Least(Discoverers(ds, level, v))
        at(v) == Least(RecordsOf(ds, level[by(v)], v))
        before(v, w) == by(v) < by(w) \/ (by(v) = by(w) /\ at(v) < at(w))
        rank(v) == Cardinality({w \in new : before(w, v)}) + 1
    IN  [i \in 1..Cardinality(new) |-> CHOOSE v \in new : rank(v) = i]

\* For every node reachable from the first level, the path on which each
\* node's predecessor is the node that discovered it first.
RECURSIVE FirstDiscovered(_, _, _, _)
FirstDiscovered(ds, level, seen, paths) ==
    IF level = <<>> THEN paths
    ELSE LET next == NextLevel(ds, level, seen)
             nodes == {next[i] : i \in 1..Len(next)}
             by(v) == level[Least(Discoverers(ds, level, v))]
         IN  FirstDiscovered(ds, next, seen \cup nodes,
                 [v \in DOMAIN paths \cup nodes |->
                     IF v \in DOMAIN paths THEN paths[v]
                     ELSE Append(paths[by(v)], v)])

FirstDiscoveredPaths(ds, from_app_id) ==
    FirstDiscovered(ds, <<from_app_id>>, {from_app_id},
                    [v \in {from_app_id} |-> <<from_app_id>>])

\* C26: the path find_path returns is the one on which every node's
\* predecessor is the node that discovered it first, nodes being dequeued
\* in FIFO order and the providers of a node scanned in record order; it is
\* that one also when other paths of the same length exist.
C26_FirstDiscoveredPath ==
    (FindPathCalled /\ (pc = "find_path_apps" \/ result.kind = "DependencyPath"))
        => LET paths == FirstDiscoveredPaths(q_deps, args.from_app)
           IN  /\ args.to_app \in DOMAIN paths
               /\ q_path = paths[args.to_app]
               /\ result.kind = "DependencyPath"
                     => result.path = [i \in 1..Len(q_path) |-> AppCode(q_path[i])]

\* A two-hop path was returned although another two-hop path, through an
\* application with a smaller id, exists as well.
C26_Witness ==
    /\ FindPathCalled
    /\ result.kind = "DependencyPath"
    /\ result.length = 2
    /\ \E y \in WideIds :
          /\ y < q_path[2]
          /\ RecordsOf(q_deps, args.from_app, y) # {}
          /\ RecordsOf(q_deps, y, args.to_app) # {}

\* ---------------------------------------------------------------- C27
\* The top-level calls dfs(node) of the loop over graph.keys(), in order:
\* the node and the shared state before and after the call.
RECURSIVE TopLevelStarts(_, _, _, _)
TopLevelStarts(ds, size, i, st) ==
    IF Len(st.keys) # size \/ i > size THEN <<>>
    ELSE LET node == st.keys[i]
         IN  IF node \notin st.visited
             THEN LET r == Dfs(ds, node, st)
                  IN  <<[node |-> node, before |-> st, after |-> r.st,
                         ret |-> r.ret]>>
                      \o TopLevelStarts(ds, size, i + 1, r.st)
             ELSE TopLevelStarts(ds, size, i + 1, st)

\* The distinct consumer ids of the records that have a provider.
ConsumerIds(ds) ==
    {ds[i].consumer_id : i \in {j \in 1..Len(ds) : ds[j].provider_id # None}}

\* C27: each top-level start of the DFS records at most one cycle and ends
\* with the path as it was when the cycle was recorded; no two cycles of one
\* start begin at the same node, and the cycles returned are at most as
\* many as the distinct consumer ids.
C27_OneCyclePerStart ==
    CircularDone
        => LET starts == TopLevelStarts(q_deps, Len(GraphKeys(q_deps)), 1,
                                        DfsInit(q_deps))
           IN  /\ \A k \in 1..Len(starts) :
                     LET old == Len(starts[k].before.cycles)
                         new == starts[k].after.cycles
                         p == starts[k].after.path
                     IN  /\ Len(new) = old + (IF starts[k].ret THEN 1 ELSE 0)
                         /\ SubSeq(new, 1, old) = starts[k].before.cycles
                         /\ \A a \in (old + 1)..Len(new), b \in (old + 1)..Len(new) :
                               new[a][1] = new[b][1] => a = b
                         /\ starts[k].ret
                               => LET c == new[Len(new)]
                                  IN  /\ Len(p) >= Len(c) - 1
                                      /\ SubSeq(p, Len(p) - Len(c) + 2, Len(p))
                                            = SubSeq(c, 1, Len(c) - 1)
               /\ Len(starts) <= Cardinality(ConsumerIds(q_deps))
               /\ result.kind = "cycles"
                     => Len(result.cycles) <= Cardinality(ConsumerIds(q_deps))

\* An application with a record on itself lies on a second cycle through
\* another application, and one cycle was returned.
C27_Witness ==
    /\ CircularDone
    /\ result.kind = "cycles"
    /\ Len(result.cycles) = 1
    /\ \E n \in Ids, m \in Ids :
          /\ m # n
          /\ {<<n, n>>, <<n, m>>, <<m, n>>} \subseteq EdgeSet(q_deps)
====
